---------------------------- MODULE Spec2Model ----------------------------
(***************************************************************************)
(* Model of pyexchange's Uniswap V3 math core,                             *)
(*   src/pyexchange/uniswapv3_math.py      (tick math, sqrt-price math),   *)
(*   src/pyexchange/uniswapv3_entities.py  (Pool, Position amounts).       *)
(*                                                                         *)
(* The functions of the math module are pure.  The model is a caller       *)
(* session: while it is "idle" it makes one call with inputs drawn from    *)
(* small sets, the call runs to its outcome (a value or the exception it   *)
(* raises), and the caller takes the outcome and is idle again.  Spec is   *)
(* the session on the math functions, PositionSpec the session on a        *)
(* Position and its Pool.                                                  *)
(*                                                                         *)
(* Numbers.  The Q64.96 / Q128.128 words do not fit TLC's 32-bit integers, *)
(* so a natural number is a little-endian sequence of base-256 limbs with  *)
(* no leading zero limb (zero is << >>).  The code's numbers are Fxp       *)
(* objects handled with Python's operators; the model keeps them exact:    *)
(*   - *, +, -, %, <<, >>, &, | are the integer operations;                *)
(*   - / is Python's true division, whose quotient may have a fractional   *)
(*     part.  A number is therefore a record [n, frac, neg]: the integer   *)
(*     part of its magnitude, whether a nonzero fractional part is         *)
(*     present, and its sign.                                              *)
(***************************************************************************)
EXTENDS Integers, Sequences, FiniteSets, TLC

---------------------------------------------------------------------------
(* Natural numbers as base-256 limb sequences.                             *)

Base == 256

Limb(a, i) == IF i >= 1 /\ i <= Len(a) THEN a[i] ELSE 0

RECURSIVE Norm(_)
Norm(a) == IF Len(a) = 0 THEN a
           ELSE IF a[Len(a)] = 0 THEN Norm(SubSeq(a, 1, Len(a) - 1))
           ELSE a

RECURSIVE FromInt(_)
FromInt(k) == IF k = 0 THEN << >> ELSE <<k % Base>> \o FromInt(k \div Base)

RECURSIVE ToIntFrom(_, _)
ToIntFrom(a, i) == IF i > Len(a) THEN 0 ELSE a[i] + Base * ToIntFrom(a, i + 1)

ToInt(a) == ToIntFrom(a, 1)

RECURSIVE CmpFrom(_, _, _)
CmpFrom(a, b, i) == IF i = 0 THEN 0
                    ELSE IF a[i] < b[i] THEN -1
                    ELSE IF a[i] > b[i] THEN 1
                    ELSE CmpFrom(a, b, i - 1)

\* -1, 0, 1 as a < b, a = b, a > b
Cmp(a, b) == IF Len(a) < Len(b) THEN -1
             ELSE IF Len(a) > Len(b) THEN 1
             ELSE CmpFrom(a, b, Len(a))

BigLt(a, b) == Cmp(a, b) < 0
BigLe(a, b) == Cmp(a, b) <= 0

\* carry propagation over a sequence of column values (each < 2^31 - 2^23)
RECURSIVE Carry(_, _, _)
Carry(cols, i, c) ==
    IF i > Len(cols) THEN FromInt(c)
    ELSE LET s == cols[i] + c
         IN  <<s % Base>> \o Carry(cols, i + 1, s \div Base)

Max2(x, y) == IF x >= y THEN x ELSE y
Min2(x, y) == IF x <= y THEN x ELSE y

BigAdd(a, b) ==
    Norm(Carry([i \in 1..Max2(Len(a), Len(b)) |-> Limb(a, i) + Limb(b, i)], 1, 0))

RECURSIVE Borrow(_, _, _, _)
Borrow(a, b, i, c) ==
    IF i > Len(a) THEN << >>
    ELSE LET s == a[i] - Limb(b, i) - c
         IN  IF s < 0 THEN <<s + Base>> \o Borrow(a, b, i + 1, 1)
             ELSE <<s>> \o Borrow(a, b, i + 1, 0)

\* a - b for a >= b
BigSub(a, b) == Norm(Borrow(a, b, 1, 0))

RECURSIVE ColSum(_, _, _, _)
ColSum(a, b, k, i) ==
    IF i > Min2(Len(a), k) THEN 0
    ELSE a[i] * b[k + 1 - i] + ColSum(a, b, k, i + 1)

BigMul(a, b) ==
    IF Len(a) = 0 \/ Len(b) = 0 THEN << >>
    ELSE Norm(Carry([k \in 1..(Len(a) + Len(b) - 1) |->
                        ColSum(a, b, k, Max2(1, k + 1 - Len(b)))], 1, 0))

RECURSIVE Pow2Small(_)
Pow2Small(k) == IF k = 0 THEN 1 ELSE 2 * Pow2Small(k - 1)

\* a << k, k >= 0
BigShl(a, k) ==
    IF Len(a) = 0 THEN a
    ELSE LET m == Pow2Small(k % 8)
         IN  [i \in 1..(k \div 8) |-> 0]
               \o Norm(Carry([i \in 1..Len(a) |-> a[i] * m], 1, 0))

\* a >> k, k >= 0 (floor)
BigShr(a, k) ==
    IF k \div 8 >= Len(a) THEN << >>
    ELSE LET d == SubSeq(a, (k \div 8) + 1, Len(a))
             m == Pow2Small(k % 8)
         IN  Norm([i \in 1..Len(d) |->
                     (d[i] \div m) + (Limb(d, i + 1) % m) * (Base \div m)])

RECURSIVE BitLenSmall(_)
BitLenSmall(k) == IF k = 0 THEN 0 ELSE 1 + BitLenSmall(k \div 2)

\* number of bits of a (0 for zero)
BitLen(a) == IF Len(a) = 0 THEN 0 ELSE 8 * (Len(a) - 1) + BitLenSmall(a[Len(a)])

RECURSIVE OrSmall(_, _)
OrSmall(x, y) == IF x = 0 THEN y
                 ELSE IF y = 0 THEN x
                 ELSE Max2(x % 2, y % 2) + 2 * OrSmall(x \div 2, y \div 2)

BigOr(a, b) == [i \in 1..Max2(Len(a), Len(b)) |-> OrSmall(Limb(a, i), Limb(b, i))]

\* long division, one quotient limb at a time, highest first; DivStep
\* returns <<quotient limbs (little-endian), remainder>>
RECURSIVE Fit(_, _, _)
Fit(b, r, q) == IF BigLe(BigMul(b, FromInt(q)), r) THEN q ELSE Fit(b, r, q - 1)

Top2(a, l) == Limb(a, l) + Base * Limb(a, l + 1)

QDigit(b, r) ==
    IF BigLt(r, b) THEN 0
    ELSE IF Len(b) = 1 THEN Top2(r, 1) \div b[1]
    ELSE Fit(b, r, Min2(Base - 1,
                        (Top2(r, Len(b) - 1) + Base * Base * Limb(r, Len(b) + 1))
                            \div Top2(b, Len(b) - 1)))

RECURSIVE DivStep(_, _, _, _, _)
DivStep(a, b, i, q, r) ==
    IF i = 0 THEN <<q, r>>
    ELSE LET r1 == Norm(<<a[i]>> \o r)
             d  == QDigit(b, r1)
             r2 == IF d = 0 THEN r1 ELSE BigSub(r1, BigMul(b, FromInt(d)))
             q2 == <<d>> \o q
         IN  \* the test only makes TLC compute r2 and q2 before it goes on
             IF Len(r2) + Len(q2) >= 0 THEN DivStep(a, b, i - 1, q2, r2)
             ELSE << >>

\* floor(a / b) and a mod b, for b > 0
BigDiv(a, b) == Norm(DivStep(a, b, Len(a), << >>, << >>)[1])
BigMod(a, b) == DivStep(a, b, Len(a), << >>, << >>)[2]

\* a big-endian byte string (as a hex literal is written) to limbs
RECURSIVE Rev(_)
Rev(s) == IF Len(s) = 0 THEN s ELSE Append(Rev(Tail(s)), Head(s))

Hex(bytes) == Norm(Rev(bytes))

\* a decimal literal, digit by digit
RECURSIVE DecFrom(_, _, _)
DecFrom(ds, i, acc) ==
    IF Len(acc) >= 0 /\ i > Len(ds) THEN acc
    ELSE DecFrom(ds, i + 1, BigAdd(BigMul(acc, FromInt(10)), FromInt(ds[i])))

Dec(ds) == DecFrom(ds, 1, << >>)

BigPow2(k) == BigShl(<<1>>, k)

---------------------------------------------------------------------------
(* Python values.  A number carries its Python type ("Fxp", "int", "Wad"): *)
(* the functions assert the types of their arguments.                      *)

Num(ty, n) == [ty |-> ty, n |-> n, frac |-> FALSE, neg |-> FALSE]
Fxp(n) == Num("Fxp", n)
PyInt(n) == Num("int", n)
Wad(n) == Num("Wad", n)

\* None
None == [ty |-> "NoneType", n |-> << >>, frac |-> FALSE, neg |-> FALSE]

\* a tick: a small signed integer with its Python type
Tick(ty, v) == [ty |-> ty, v |-> v]

\* how a call ends: with a value, or with the exception it raises
Value(v) == [kind |-> "value", val |-> v]
Raise(e) == [kind |-> e, val |-> << >>]
IsValue(o) == o.kind = "value"

isinstance(x, ty) == x.ty = ty

\* the type of a binary operation's result: an Fxp operand makes it an Fxp
ResultType(x, y) == IF y.ty = "Fxp" THEN "Fxp" ELSE x.ty

\* x / d for a whole divisor d > 0: Python's true division
TrueDiv(x, d) ==
    LET qr == DivStep(x.n, d, Len(x.n), << >>, << >>)
    IN  [x EXCEPT !.n = Norm(qr[1]), !.frac = x.frac \/ Len(qr[2]) # 0]

\* x % d for a whole divisor d > 0; Python's result is never negative
PyMod(x, d) ==
    LET m == BigMod(x.n, d)
    IN  IF x.neg /\ Len(m) # 0 THEN [x EXCEPT !.n = BigSub(d, m), !.neg = FALSE]
        ELSE [x EXCEPT !.n = m, !.neg = FALSE]

\* x + k for a whole k >= 0
PyAdd(x, k) ==
    IF ~x.neg THEN [x EXCEPT !.n = BigAdd(x.n, k)]
    ELSE IF BigLe(x.n, k) THEN [x EXCEPT !.n = BigSub(k, x.n), !.neg = FALSE]
    ELSE [x EXCEPT !.n = BigSub(x.n, k)]

\* x - y for whole x, y >= 0
PySub(x, y) ==
    IF BigLe(y.n, x.n)
    THEN [ty |-> ResultType(x, y), n |-> BigSub(x.n, y.n),
          frac |-> x.frac \/ y.frac, neg |-> FALSE]
    ELSE [ty |-> ResultType(x, y), n |-> BigSub(y.n, x.n),
          frac |-> x.frac \/ y.frac, neg |-> TRUE]

\* x * y, exact when both are whole or one of them is 1; a product of a
\* fractional number with another factor keeps only the integer parts
PyMul(x, y) ==
    IF y.n = <<1>> /\ ~y.frac /\ ~y.neg THEN [x EXCEPT !.ty = ResultType(x, y)]
    ELSE IF x.n = <<1>> /\ ~x.frac /\ ~x.neg
         THEN [y EXCEPT !.ty = ResultType(x, y)]
    ELSE LET n == BigMul(x.n, y.n)
         IN  [ty |-> ResultType(x, y), n |-> n, frac |-> x.frac \/ y.frac,
              neg |-> (x.neg # y.neg) /\ Len(n) # 0]

\* comparisons of numbers >= 0 with the fractional part taken into account;
\* two fractional numbers with the same integer part are taken to be the
\* same number
NumLe(x, y) ==
    LET c == Cmp(x.n, y.n)
    IN  c < 0 \/ (c = 0 /\ (~x.frac \/ y.frac))

NumLt(x, y) ==
    LET c == Cmp(x.n, y.n)
    IN  c < 0 \/ (c = 0 /\ ~x.frac /\ y.frac)

NumNonZero(x) == Len(x.n) # 0 \/ x.frac

---------------------------------------------------------------------------
(* Module constants, uniswapv3_math.py lines 44-53.                        *)

MIN_TICK == -887272
MAX_TICK == 887272
MIN_SQRT_RATIO == Dec(<<4,2,9,5,1,2,8,7,3,9>>)
MAX_SQRT_RATIO ==
    Dec(<<1,4,6,1,4,4,6,7,0,3,4,8,5,2,1,0,1,0,3,2,8,7,2,7,3,0,5,2,2,0,3,9,8,
          8,8,2,2,3,7,8,7,2,3,9,7,0,3,4,2>>)
MAX_UINT256 ==
    Hex(<<\hff, \hff, \hff, \hff, \hff, \hff, \hff, \hff,
          \hff, \hff, \hff, \hff, \hff, \hff, \hff, \hff,
          \hff, \hff, \hff, \hff, \hff, \hff, \hff, \hff,
          \hff, \hff, \hff, \hff, \hff, \hff, \hff, \hff>>)
ZERO == << >>
ONE == <<1>>
Q96 == BigPow2(96)

---------------------------------------------------------------------------
(* get_sqrt_ratio_at_tick, uniswapv3_math.py lines 63-127.                 *)

\* a product shifted right by one bit too few
ShiftsBy127(value, multiply_by) == BigShr(BigMul(value, multiply_by), 127)

\* value * Fxp(multiply_by) >> Fxp(128)
mul_shift(value, multiply_by) == BigShr(BigMul(value, multiply_by), 128)

\* the accumulator's two starting values (line 77)
RatioBit0Set ==
    Hex(<<\hff, \hfc, \hb9, \h33, \hbd, \h6f, \had, \h37, \haa, \h2d,
          \h16, \h2d, \h1a, \h59, \h40, \h01>>)
RatioBit0Clear == BigPow2(128)

\* the multipliers of lines 79-116: entry i is the constant of bit i
LadderMultipliers ==
    << Hex(<<\hff, \hf9, \h72, \h72, \h37, \h3d, \h41, \h32, \h59,
            \ha4, \h69, \h90, \h58, \h0e, \h21, \h3a>>),
       Hex(<<\hff, \hf2, \he5, \h0f, \h5f, \h65, \h69, \h32, \hef,
            \h12, \h35, \h7c, \hf3, \hc7, \hfd, \hcc>>),
       Hex(<<\hff, \he5, \hca, \hca, \h7e, \h10, \he4, \he6, \h1c,
            \h36, \h24, \hea, \ha0, \h94, \h1c, \hd0>>),
       Hex(<<\hff, \hcb, \h98, \h43, \hd6, \h0f, \h61, \h59, \hc9,
            \hdb, \h58, \h83, \h5c, \h92, \h66, \h44>>),
       Hex(<<\hff, \h97, \h3b, \h41, \hfa, \h98, \hc0, \h81, \h47,
            \h2e, \h68, \h96, \hdf, \hb2, \h54, \hc0>>),
       Hex(<<\hff, \h2e, \ha1, \h64, \h66, \hc9, \h6a, \h38, \h43,
            \hec, \h78, \hb3, \h26, \hb5, \h28, \h61>>),
       Hex(<<\hfe, \h5d, \hee, \h04, \h6a, \h99, \ha2, \ha8, \h11,
            \hc4, \h61, \hf1, \h96, \h9c, \h30, \h53>>),
       Hex(<<\hfc, \hbe, \h86, \hc7, \h90, \h0a, \h88, \hae, \hdc,
            \hff, \hc8, \h3b, \h47, \h9a, \ha3, \ha4>>),
       Hex(<<\hf9, \h87, \ha7, \h25, \h3a, \hc4, \h13, \h17, \h6f,
            \h2b, \h07, \h4c, \hf7, \h81, \h5e, \h54>>),
       Hex(<<\hf3, \h39, \h2b, \h08, \h22, \hb7, \h00, \h05, \h94,
            \h0c, \h7a, \h39, \h8e, \h4b, \h70, \hf3>>),
       Hex(<<\he7, \h15, \h94, \h75, \ha2, \hc2, \h9b, \h74, \h43,
            \hb2, \h9c, \h7f, \ha6, \he8, \h89, \hd9>>),
       Hex(<<\hd0, \h97, \hf3, \hbd, \hfd, \h20, \h22, \hb8, \h84,
            \h5a, \hd8, \hf7, \h92, \haa, \h58, \h25>>),
       Hex(<<\ha9, \hf7, \h46, \h46, \h2d, \h87, \h0f, \hdf, \h8a,
            \h65, \hdc, \h1f, \h90, \he0, \h61, \he5>>),
       Hex(<<\h70, \hd8, \h69, \ha1, \h56, \hd2, \ha1, \hb8, \h90,
            \hbb, \h3d, \hf6, \h2b, \haf, \h32, \hf7>>),
       Hex(<<\h31, \hbe, \h13, \h5f, \h97, \hd0, \h8f, \hd9, \h81,
            \h23, \h15, \h05, \h54, \h2f, \hcf, \ha6>>),
       Hex(<<\h09, \haa, \h50, \h8b, \h5b, \h7a, \h84, \he1, \hc6,
            \h77, \hde, \h54, \hf3, \he9, \h9b, \hc9>>),
       Hex(<<\h5d, \h6a, \hf8, \hde, \hdb, \h81, \h19, \h66, \h99,
            \hc3, \h29, \h22, \h5e, \he6, \h04>>),
       Hex(<<\h22, \h16, \he5, \h84, \hf5, \hfa, \h1e, \ha9, \h26,
            \h04, \h1b, \hed, \hfe, \h98>>),
       Hex(<<\h04, \h8a, \h17, \h03, \h91, \hf7, \hdc, \h42, \h44,
            \h4e, \h8f, \ha2>>) >>

\* abs_tick & mask != 0 for the mask of bit i (a small integer)
BitSet(abs_tick, i) == (abs_tick \div Pow2Small(i)) % 2 # 0

\* line 75
AbsTick(tick) == IF tick < 0 THEN tick * (-1) ELSE tick

\* a start that ignores bit 0 of the tick
StartsBelowOne(abs_tick) == RatioBit0Set

\* line 77
LadderStart(abs_tick) ==
    IF BitSet(abs_tick, 0) THEN RatioBit0Set ELSE RatioBit0Clear

\* lines 79-116, the bits in increasing order from bit i on
RECURSIVE Ladder(_, _, _)
Ladder(abs_tick, i, ratio) ==
    IF Len(ratio) >= 0 /\ i > Len(LadderMultipliers) THEN ratio
    ELSE IF BitSet(abs_tick, i)
         THEN Ladder(abs_tick, i + 1, mul_shift(ratio, LadderMultipliers[i]))
         ELSE Ladder(abs_tick, i + 1, ratio)

\* a reciprocal taken at tick 0 as well
ReciprocalFromZero(tick) == tick >= 0

\* a conversion without the reciprocal branch
NeverReciprocal(tick) == FALSE

\* lines 118-119: is the accumulator replaced by its reciprocal
TakesReciprocal(tick) == tick > 0

\* a conversion that leaves the accumulator with its 128 fractional bits
KeepsQ128(ratio) == ratio

\* lines 121-127: the 128-fractional-bit accumulator to the returned number.
\* The test "ratio % q32 >= ZERO" and the summand ZERO are the code's.
ToQ96(ratio) ==
    LET q32 == BigPow2(32)
    IN  IF Cmp(PyMod(ratio, q32).n, ZERO) >= 0
        THEN PyAdd(TrueDiv(ratio, q32), ZERO)
        ELSE TrueDiv(ratio, q32)

get_sqrt_ratio_at_tick(tick) ==
    IF ~isinstance(tick, "Fxp") THEN Raise("AssertionError")
    ELSE LET abs_tick == AbsTick(tick.v)
             ratio == Ladder(abs_tick, 1, LadderStart(abs_tick))
         IN  IF TakesReciprocal(tick.v)
             THEN IF Len(ratio) = 0 THEN Raise("ZeroDivisionError")
                  ELSE Value(ToQ96(TrueDiv(Fxp(MAX_UINT256), ratio)))
             ELSE Value(ToQ96(Fxp(ratio)))

---------------------------------------------------------------------------
(* Signed integers for the logarithm of get_tick_at_sqrt_ratio: a sign and *)
(* a magnitude (zero has neg = FALSE).                                      *)

Signed(neg, mag) == [neg |-> neg /\ Len(mag) # 0, mag |-> mag]

\* s * k, s + k, s - k for a natural k
SMul(s, k) == Signed(s.neg, BigMul(s.mag, k))

SAdd(s, k) ==
    IF ~s.neg THEN Signed(FALSE, BigAdd(s.mag, k))
    ELSE IF BigLe(s.mag, k) THEN Signed(FALSE, BigSub(k, s.mag))
    ELSE Signed(TRUE, BigSub(s.mag, k))

SSub(s, k) ==
    IF s.neg THEN Signed(TRUE, BigAdd(s.mag, k))
    ELSE IF BigLe(k, s.mag) THEN Signed(FALSE, BigSub(s.mag, k))
    ELSE Signed(TRUE, BigSub(k, s.mag))

\* s >> k, the signed (floor) right shift
SShr(s, k) ==
    IF ~s.neg THEN Signed(FALSE, BigShr(s.mag, k))
    ELSE Signed(TRUE, BigShr(BigAdd(s.mag, BigSub(BigPow2(k), <<1>>)), k))

\* int(s) for a small s
SToInt(s) == IF s.neg THEN 0 - ToInt(s.mag) ELSE ToInt(s.mag)

\* hi * 2^64 + low for a small signed hi and 0 <= low < 2^64: the two's
\* complement word whose low 64 bits are low
FromWords(hi, low) ==
    IF hi >= 0 THEN Signed(FALSE, BigAdd(BigShl(FromInt(hi), 64), low))
    ELSE Signed(TRUE, BigSub(BigShl(FromInt(0 - hi), 64), low))

---------------------------------------------------------------------------
(* get_tick_at_sqrt_ratio, uniswapv3_math.py lines 57-60 and 132-184.      *)

\* math.log takes x as a double, which has 53 significant bits
FloatMantissaBits == 53

\* int(math.log(x, 2)) for x > 0.  The double nearest to an x whose leading
\* 53 bits are all ones has the logarithm of the next power of two, so the
\* answer is then one above the index of x's highest set bit.
most_significant_bit(x) ==
    IF BitLen(x) >= FloatMantissaBits
       /\ BigShr(x, BitLen(x) - FloatMantissaBits)
              = BigSub(BigPow2(FloatMantissaBits), <<1>>)
    THEN BitLen(x)
    ELSE BitLen(x) - 1

\* line 146: which of the two shifts normalises the ratio
ShiftsRight(msb) == msb > 128

\* lines 160-171, iterations i .. 13; log_2 is kept as its words
\* <<upper word (signed), low 64 bits>>.  f is 0 or 1 since r < 2^128, so
\* f << (63 - i) lies in the low word.
RECURSIVE LogIter(_, _, _)
LogIter(i, r, low) ==
    IF Len(r) + Len(low) >= 0 /\ i >= 14 THEN low
    ELSE LET sq == BigShr(BigMul(r, r), 127)
             f  == BigShr(sq, 128)
         IN  LogIter(i + 1, BigShr(sq, ToInt(f)),
                     BigOr(low, BigShl(f, 63 - i)))

\* line 173
LogSqrt10001Factor ==
    Hex(<<\h36, \h27, \ha3, \h01, \hd7, \h10, \h55, \h77, \h4c, \h85>>)

\* line 175
TickLowOffset ==
    Hex(<<\h02, \h8f, \h64, \h81, \hab, \h7f, \h04, \h5a, \h5a, \hf0,
          \h12, \ha1, \h9d, \h00, \h3a, \haa>>)

\* line 176
TickHighOffset ==
    Hex(<<\hdb, \h2d, \hf0, \h9e, \h81, \h95, \h9a, \h81, \h45, \h5e,
          \h26, \h07, \h99, \ha0, \h63, \h2f>>)

\* lines 173-184, from the normalised ratio r on
TickFromLog(sqrtRatioX96, msb, r) ==
    LET log_2 == FromWords(msb - 128, Norm(LogIter(0, r, << >>)))
        log_sqrt10001 == SMul(log_2, LogSqrt10001Factor)
        tick_low == SToInt(SShr(SSub(log_sqrt10001, TickLowOffset), 128))
        tick_high == SToInt(SShr(SAdd(log_sqrt10001, TickHighOffset), 128))
    IN  IF tick_low = tick_high THEN Value(Tick("int", tick_low))
        ELSE LET at_high == get_sqrt_ratio_at_tick(Tick("Fxp", tick_high))
             IN  IF ~IsValue(at_high) THEN at_high
                 ELSE IF NumLe(at_high.val, sqrtRatioX96)
                      THEN Value(Tick("int", tick_high))
                      ELSE Value(Tick("int", tick_low))

\* The shifts act on the integer part of the ratio.  math.log rejects 0
\* and Python rejects a negative shift count, both with ValueError.
get_tick_at_sqrt_ratio(sqrtRatioX96) ==
    IF ~isinstance(sqrtRatioX96, "Fxp") THEN Raise("AssertionError")
    ELSE LET square_root_ratio_x128 == BigShl(sqrtRatioX96.n, 32)
         IN  IF Len(square_root_ratio_x128) = 0 THEN Raise("ValueError")
             ELSE LET msb == most_significant_bit(square_root_ratio_x128)
                  IN  IF ShiftsRight(msb)
                      THEN TickFromLog(sqrtRatioX96, msb,
                               BigShr(square_root_ratio_x128, msb - 127))
                      ELSE IF 127 - msb < 0 THEN Raise("ValueError")
                      ELSE TickFromLog(sqrtRatioX96, msb,
                               BigShl(square_root_ratio_x128, 127 - msb))

---------------------------------------------------------------------------
(* encodeSqrtRatioX96, uniswapv3_math.py lines 187-196.  The quotient of   *)
(* line 194 and the square root of line 196 are Python floats: a double is *)
(* kept as its mantissa m < 2^53 and exponent e, for the value m * 2^e.    *)

Double(m, e) == [m |-> m, e |-> e]

Odd(n) == Len(n) # 0 /\ n[1] % 2 = 1

\* q without its lowest drop bits (drop >= 1), rounded to nearest and a
\* tie to even; sticky: nonzero bits below q were dropped before
RoundOff(q, drop, sticky) ==
    LET top == BigShr(q, drop)
        c   == Cmp(Norm(BigMod(q, BigPow2(drop))), BigPow2(drop - 1))
    IN  IF c > 0 \/ (c = 0 /\ (sticky \/ Odd(top)))
        THEN BigAdd(top, ONE)
        ELSE top

\* the double nearest to n * 2^(-s); n has more than 53 bits whenever
\* sticky is set
ToDouble(n, s, sticky) ==
    IF Len(n) = 0 THEN Double(ZERO, 0)
    ELSE IF BitLen(n) <= FloatMantissaBits THEN Double(n, 0 - s)
    ELSE Double(RoundOff(n, BitLen(n) - FloatMantissaBits, sticky),
                BitLen(n) - FloatMantissaBits - s)

DoubleOfQuotient(qr, s) == ToDouble(Norm(qr[1]), s, Len(qr[2]) # 0)

\* scaled is n * 2^s
DividesScaled(scaled, d, s) ==
    DoubleOfQuotient(DivStep(scaled, d, Len(scaled), << >>, << >>), s)

\* line 194: n / d for the ints n >= 0 and d > 0, correctly rounded
IntTrueDiv(n, d) ==
    DividesScaled(BigShl(n, FloatMantissaBits + 2 + BitLen(d)), d,
                  FloatMantissaBits + 2 + BitLen(d))

\* floor(sqrt(x)) for x > 0 by Newton's iteration from r >= sqrt(x): the
\* iterates decrease until the root is reached
RECURSIVE SqrtNewton(_, _)
RECURSIVE SqrtStep(_, _, _)
SqrtStep(x, r, next) == IF BigLt(next, r) THEN SqrtNewton(x, next) ELSE r

SqrtNewton(x, r) == SqrtStep(x, r, BigShr(BigAdd(r, BigDiv(x, r)), 1))

BigSqrt(x) ==
    IF Len(x) = 0 THEN << >>
    ELSE SqrtNewton(x, BigPow2((BitLen(x) + 1) \div 2))

\* r = floor(sqrt(m2)), for the value sqrt(m2) * 2^e
SqrtRounded(r, m2, e) == ToDouble(r, 0 - e, BigMul(r, r) # m2)

\* sqrt(m2 * 2^e2) for an even e2
SqrtOfEven(m2, e2) == SqrtRounded(BigSqrt(m2), m2, e2 \div 2)

\* math.sqrt of line 196, correctly rounded: the mantissa is scaled by an
\* even power of two (and by one more bit when the exponent is odd) so
\* that its root has more than 53 bits
MathSqrt(x) ==
    IF Len(x.m) = 0 THEN x
    ELSE IF x.e % 2 = 0
    THEN SqrtOfEven(BigShl(x.m, 2 * FloatMantissaBits + 2),
                    x.e - (2 * FloatMantissaBits + 2))
    ELSE SqrtOfEven(BigShl(x.m, 2 * FloatMantissaBits + 3),
                    x.e - (2 * FloatMantissaBits + 3))

\* Fxp(<float>, dtype='Q64.96') of line 196: the float's value as an Fxp
\* (word sizes are not modelled, as for every other Fxp)
FxpOfDouble(x) ==
    IF x.e >= 0 THEN Fxp(BigShl(x.m, x.e))
    ELSE [Fxp(BigShr(x.m, 0 - x.e)) EXCEPT
             !.frac = Len(Norm(BigMod(x.m, BigPow2(0 - x.e)))) # 0]

\* A negative quotient makes math.sqrt raise ValueError.
encodeSqrtRatioX96(amount_1, amount_0) ==
    IF ~isinstance(amount_1, "int") THEN Raise("AssertionError")
    ELSE IF ~isinstance(amount_0, "int") THEN Raise("AssertionError")
    ELSE IF Len(amount_0.n) = 0 THEN Raise("ZeroDivisionError")
    ELSE IF amount_1.neg # amount_0.neg /\ Len(amount_1.n) # 0
    THEN Raise("ValueError")
    ELSE Value(FxpOfDouble(MathSqrt(
             IntTrueDiv(BigShl(amount_1.n, 196), amount_0.n))))

---------------------------------------------------------------------------
(* mul_div_rounding_up and SqrtPriceMath, uniswapv3_math.py lines 204-260. *)

\* "/" raises ZeroDivisionError on a zero denominator (line 210)
mul_div_rounding_up(a, b, denominator) ==
    IF ~isinstance(a, "Fxp") \/ ~isinstance(b, "Fxp")
       \/ ~isinstance(denominator, "Fxp")
    THEN Raise("AssertionError")
    ELSE LET product == PyMul(a, b)
         IN  IF ~NumNonZero(denominator) THEN Raise("ZeroDivisionError")
             ELSE LET result == TrueDiv(product, denominator.n)
                  IN  IF NumNonZero(PyMod(product, denominator.n))
                      THEN Value(PyAdd(result, ONE))
                      ELSE Value(result)

\* The swap of lines 225-229 is made on the function's own names and the
\* function ends without a return statement: the caller gets None.
invert_ratio_if_needed(sqrtRatioAX96, sqrtRatioBX96) ==
    IF ~isinstance(sqrtRatioAX96, "Fxp") \/ ~isinstance(sqrtRatioBX96, "Fxp")
    THEN Raise("AssertionError")
    ELSE LET swapped == IF NumLt(sqrtRatioBX96, sqrtRatioAX96)
                        THEN <<sqrtRatioBX96, sqrtRatioAX96>>
                        ELSE <<sqrtRatioAX96, sqrtRatioBX96>>
         IN  Value(None)

\* "a, b = value" (lines 238, 255): None cannot be unpacked
Unpacks(v) == v # None

\* lines 240-246, with the pair that line 238 unpacked
Amount0(sqrtRatioAX96, sqrtRatioBX96, liquidity, round_up) ==
    LET numerator_1 == PyInt(BigShl(liquidity.n, 96))
        numerator_2 == PySub(sqrtRatioBX96, sqrtRatioAX96)
    IN  IF round_up
        THEN LET inner == mul_div_rounding_up(numerator_1, numerator_2,
                                              sqrtRatioBX96)
             IN  IF ~IsValue(inner) THEN inner
                 ELSE mul_div_rounding_up(inner.val, Fxp(ONE), sqrtRatioAX96)
        ELSE IF ~NumNonZero(sqrtRatioBX96) \/ ~NumNonZero(sqrtRatioAX96)
             THEN Raise("ZeroDivisionError")
             ELSE Value(TrueDiv(TrueDiv(PyMul(numerator_1, numerator_2),
                                        sqrtRatioBX96.n),
                                sqrtRatioAX96.n))

get_amount_0_delta(sqrtRatioAX96, sqrtRatioBX96, liquidity, round_up) ==
    IF ~isinstance(sqrtRatioAX96, "Fxp") \/ ~isinstance(sqrtRatioBX96, "Fxp")
       \/ ~isinstance(liquidity, "Wad") \/ round_up \notin BOOLEAN
    THEN Raise("AssertionError")
    ELSE LET ordered == invert_ratio_if_needed(sqrtRatioAX96, sqrtRatioBX96)
         IN  IF ~IsValue(ordered) THEN ordered
             ELSE IF ~Unpacks(ordered.val) THEN Raise("TypeError")
             ELSE Amount0(ordered.val[1], ordered.val[2], liquidity, round_up)

\* lines 257-260, with the pair that line 255 unpacked
Amount1(sqrtRatioAX96, sqrtRatioBX96, liquidity, round_up) ==
    IF round_up
    THEN mul_div_rounding_up(liquidity, PySub(sqrtRatioBX96, sqrtRatioAX96),
                             Fxp(Q96))
    ELSE Value(TrueDiv(PyMul(liquidity, PySub(sqrtRatioBX96, sqrtRatioAX96)),
                       Q96))

get_amount_1_delta(sqrtRatioAX96, sqrtRatioBX96, liquidity, round_up) ==
    IF ~isinstance(sqrtRatioAX96, "Fxp") \/ ~isinstance(sqrtRatioBX96, "Fxp")
       \/ ~isinstance(liquidity, "Wad") \/ round_up \notin BOOLEAN
    THEN Raise("AssertionError")
    ELSE LET ordered == invert_ratio_if_needed(sqrtRatioAX96, sqrtRatioBX96)
         IN  IF ~IsValue(ordered) THEN ordered
             ELSE IF ~Unpacks(ordered.val) THEN Raise("TypeError")
             ELSE Amount1(ordered.val[1], ordered.val[2], liquidity, round_up)

---------------------------------------------------------------------------
(* Pool and Position, uniswapv3_entities.py lines 18-198.                  *)
(*                                                                         *)
(* Each method is modelled as it is written, on objects that carry the     *)
(* fields the constructors assign (lines 57-63 and 86-93).  A Pool is      *)
(* taken as given: Pool.__init__ itself ends in NameError at line 64       *)
(* (get_token_1_price is not a global name), so a pool object comes from   *)
(* a subclass or from Pool.__new__ with the fields of lines 57-63 set.     *)
(* Position.pool is a reference: a position sees its pool as it is now.    *)

\* The global names of the module: its imports (lines 18-28) and its
\* classes.  Q192, encodeSqrtRatioX96, MIN_SQRT_RATIO and MAX_SQRT_RATIO
\* of uniswapv3_math.py are not imported (line 24).
Globals ==
    {"time", "Fxp", "List", "Optional", "Tuple", "Web3",
     "get_sqrt_ratio_at_tick", "SqrtPriceMath", "Address", "Calldata",
     "Invocation", "Token", "Wad", "bytes_to_int", "bytes_to_hexstring",
     "PriceFraction", "Pool", "Position"}

\* a slippage tolerance or a price: the float or int num / den
Float(num, den) == [ty |-> "float", num |-> num, den |-> den]

\* PriceFraction.get_float_price, lines 42-43: numerator and denominator
\* are read as global names, not as fields of self
get_float_price(self) ==
    IF "numerator" \notin Globals \/ "denominator" \notin Globals
    THEN Raise("NameError")
    ELSE Value([ty |-> "float", num |-> self.numerator,
                den |-> self.denominator])

\* the fields of a Pool that the methods read (lines 60-62)
PoolOf(square_root_ratio_x96, liquidity, tick_current) ==
    [square_root_ratio_x96 |-> square_root_ratio_x96,
     liquidity |-> liquidity,
     tick_current |-> tick_current]

\* Pool.get_token_0_price, lines 67-69:
\* PriceFraction(token_0, token_1, denominator = Q192, numerator = price^2)
get_token_0_price(self) ==
    IF "Q192" \notin Globals THEN Raise("NameError")
    ELSE Value([numerator |-> PyMul(self.square_root_ratio_x96,
                                    self.square_root_ratio_x96),
                denominator |-> Fxp(BigMul(Q96, Q96))])

\* Position.__init__, lines 79-93.  The pool is held by reference and is
\* not a field of the record.
Position(tick_lower, tick_upper, liquidity) ==
    IF ~isinstance(tick_lower, "int") \/ ~isinstance(tick_upper, "int")
       \/ ~isinstance(liquidity, "int")
    THEN Raise("AssertionError")
    ELSE Value([tick_lower |-> tick_lower,
                tick_upper |-> tick_upper,
                liquidity |-> liquidity,
                token_0_amount |-> None,
                token_1_amount |-> None,
                mint_amounts |-> None])

\* a method's effect: its outcome and the object after it
Effect(outcome, self) == [out |-> outcome, self |-> self]

\* the ratios of the two ends of the range, in the order the arguments
\* are evaluated: get_sqrt_ratio_at_tick(self.tick_lower), then
\* get_sqrt_ratio_at_tick(self.tick_upper).  The ticks are handed over as
\* the ints they are.
RatiosOfRange(self) ==
    [end \in {"lower", "upper"} |->
        get_sqrt_ratio_at_tick(IF end = "lower" THEN self.tick_lower
                               ELSE self.tick_upper)]

\* SqrtPriceMath.get_amount_0_delta(get_sqrt_ratio_at_tick(..),
\* get_sqrt_ratio_at_tick(..), self.liquidity, round_up) of lines 107-112,
\* 114-119 and 159-164: an argument that raises ends the call before it
\* is made, and the liquidity is handed over as the int it is
Amount0OfRange(ratios, liquidity, round_up) ==
    IF ~IsValue(ratios.lower) THEN ratios.lower
    ELSE IF ~IsValue(ratios.upper) THEN ratios.upper
    ELSE get_amount_0_delta(ratios.lower.val, ratios.upper.val, liquidity,
                            round_up)

\* self.token_0_amount = <amount>: nothing is stored when the right-hand
\* side raises
StoreAmount0(self, amount) ==
    IF ~IsValue(amount) THEN Effect(amount, self)
    ELSE Effect(Value(None), [self EXCEPT !.token_0_amount = amount.val])

\* The assignment of lines 107-112 and, word for word, of lines 114-119:
\* the delta between the ratios of the two ends of the range, rounded down
StoreAmount0OfRange(self) ==
    StoreAmount0(self, Amount0OfRange(RatiosOfRange(self), self.liquidity,
                                      FALSE))

\* the branch that lines 106, 113 and 120 (and 157, 167, 172) take
RangeBranch(self, pool) ==
    IF pool.tick_current.v < self.tick_lower.v THEN "below"
    ELSE IF pool.tick_current.v < self.tick_upper.v THEN "within"
    ELSE "above"

\* Position.amount_in_token_0, lines 103-121.  The amount is stored in
\* token_0_amount; there is no return statement.
amount_in_token_0(self, pool) ==
    IF self.token_0_amount = None
    THEN IF RangeBranch(self, pool) \in {"below", "within"}
         THEN StoreAmount0OfRange(self)
         ELSE Effect(Value(None),
                     [self EXCEPT !.token_0_amount = Wad(ZERO)])
    ELSE Effect(Value(None), self)

\* Position.amount_in_token_1, lines 123-125: pass
amount_in_token_1(self, pool) == Effect(Value(None), self)

\* a call that leaves out required positional arguments (lines 169-175)
CallWithoutArguments == Raise("TypeError")

\* the dict of lines 158-166 around its amount0
BelowRangeDict(amount) ==
    IF ~IsValue(amount) THEN amount
    ELSE Value([amount0 |-> amount.val, amount1 |-> PyInt(ZERO)])

\* lines 158-166
MintAmountsBelowRange(self) ==
    BelowRangeDict(Amount0OfRange(RatiosOfRange(self), self.liquidity, TRUE))

\* The function Position.mint_amounts, lines 154-178.  It reads the
\* attribute _mint_amount, which nothing assigns.
mint_amounts(self, pool) ==
    IF "_mint_amount" \notin DOMAIN self THEN Raise("AttributeError")
    ELSE IF self._mint_amount = None
    THEN IF RangeBranch(self, pool) = "below"
         THEN MintAmountsBelowRange(self)
         ELSE CallWithoutArguments
    ELSE Value(self._mint_amount)

\* the function of the class, as Position.mint_amounts finds it
Function == [ty |-> "function", n |-> << >>, frac |-> FALSE, neg |-> FALSE]

\* attribute(..): on the object, the attribute mint_amounts is the None
\* that line 93 assigned, which hides the function of the class
CallAttribute(attribute, function_outcome) ==
    IF attribute = None THEN Raise("TypeError") ELSE function_outcome

\* Position._ratios_after_slippage, lines 181-198.  Every path has raised
\* by line 188: the clamping of lines 190-196 is never reached.
_ratios_after_slippage(self, pool, slippage_tolerance) ==
    IF ~isinstance(slippage_tolerance, "float") THEN Raise("AssertionError")
    ELSE IF ~(/\ slippage_tolerance.num < slippage_tolerance.den
              /\ slippage_tolerance.num > 0)
    THEN Raise("AssertionError")
    ELSE LET price == get_token_0_price(pool)
         IN  IF ~IsValue(price) THEN price
             ELSE LET float_price == get_float_price(price.val)
                  IN  IF ~IsValue(float_price) THEN float_price
                      ELSE IF "encodeSqrtRatioX96" \notin Globals
                      THEN Raise("NameError")
                      ELSE Raise("AttributeError")

---------------------------------------------------------------------------
(* The caller session.                                                     *)
(*   pc    "idle" or "returned" (a call has run to its outcome)            *)
(*   call  the call that was made: [op, args]                              *)
(*   out   its outcome                                                     *)
(*   held  the last call that returned a value, with that value: what a    *)
(*         caller has in hand to pass to its next call or to compare with  *)
(*         (an assignment "x = f(..)" does not happen when f raises)       *)
(*   pool      the Pool object the caller has                              *)
(*   position  the Position object the caller has made on it, or None      *)

VARIABLES pc, call, out, held, pool, position

vars == <<pc, call, out, held, pool, position>>

\* ticks near zero that the caller tries: -MaxSmallTick .. MaxSmallTick
MaxSmallTick == 1

\* the ticks the caller tries: the ends of the domain and their
\* neighbours on both sides, the ticks around zero, and for every
\* multiplier of the ladder the two ticks that use only that one
Ticks ==
    {MIN_TICK - 1, MIN_TICK, MIN_TICK + 1, MAX_TICK - 1, MAX_TICK,
     MAX_TICK + 1}
    \cup ((0 - MaxSmallTick) .. MaxSmallTick)
    \cup {Pow2Small(i) : i \in 1..Len(LadderMultipliers)}
    \cup {0 - Pow2Small(i) : i \in 1..Len(LadderMultipliers)}

\* tick arguments: Fxp ticks, and a plain int as uniswapv3_entities.py
\* passes them
TickArgs == {Tick("Fxp", t) : t \in Ticks} \cup {Tick("int", 0)}

\* prices the caller tries besides the one it holds
Prices ==
    {Fxp(ZERO), Fxp(BigSub(MIN_SQRT_RATIO, ONE)), Fxp(MIN_SQRT_RATIO),
     Fxp(Q96), Fxp(MAX_SQRT_RATIO), Fxp(BigAdd(MAX_SQRT_RATIO, ONE))}

\* amounts handed to encodeSqrtRatioX96: ints, and an Fxp
Amounts == {0, 1, 2, 100}
AmountArgs == {PyInt(FromInt(a)) : a \in Amounts} \cup {Fxp(ONE)}

\* operands of mul_div_rounding_up
Factors == {0, 2, 3, 100}
Denominators == {0, 3, 7}

\* the factors as numbers, and one of 201 bits: the product of two of
\* those does not fit a 256-bit word
FactorArgs == {FromInt(a) : a \in Factors} \cup {BigPow2(200)}

\* arguments of the amount deltas; 10^18 is the Wad of 1.0, and with the
\* liquidity 2^127 the product (liquidity << 96) * (B - A) of
\* get_amount_0_delta does not fit a 256-bit word
DeltaRatios == {Fxp(ZERO), Fxp(MIN_SQRT_RATIO), Fxp(Q96)}
Liquidities ==
    {Wad(ZERO), Wad(Dec(<<1,0,0,0,0,0,0,0,0,0,0,0,0,0,0,0,0,0,0>>)),
     Wad(BigPow2(127))}

NoCall == [op |-> "none", args |-> << >>]
NoOutcome == [kind |-> "none", val |-> << >>]
NothingHeld == [op |-> "none", args |-> << >>, out |-> NoOutcome]

PositionLiquidities == {PyInt(ZERO), PyInt(ONE)}

\* slippage tolerances: 0.0, 0.05, 0.5, 1.0, 1.5 and the int 1
Tolerances ==
    {Float(0, 20), Float(1, 20), Float(10, 20), Float(20, 20),
     Float(30, 20), [ty |-> "int", num |-> 1, den |-> 1]}

\* ticks of the sample positions, as the tests take them
\* (Position(pool, -10, 10, 1))
PositionTicks == {0 - 10, 0, 10}

\* arguments of Position(..): int ticks, one of them past MAX_TICK, and an
\* Fxp tick as get_sqrt_ratio_at_tick wants them
PositionTickArgs ==
    {Tick("int", t) : t \in PositionTicks \cup {MAX_TICK + 1}}
    \cup {Tick("Fxp", 0)}

\* The pool at the ticks -20, -10, 0, 10, 20: below, on and above the ends
\* of the sample ranges.  The price is the first whole Q96 ratio of the
\* tick, ceil(sqrt(1.0001^tick) * 2^96).
Pools ==
    {PoolOf(Fxp(Dec(<<7,9,1,4,8,9,7,7,9,0,9,8,1,4,9,2,3,5,7,6,0,6,6,3,3,1,
                      2,6,5>>)), Wad(ZERO), Tick("int", 0 - 20)),
     PoolOf(Fxp(Dec(<<7,9,1,8,8,5,6,0,3,1,4,4,5,9,1,5,1,3,7,3,7,2,5,3,1,5,
                      9,6,0>>)), Wad(ZERO), Tick("int", 0 - 10)),
     PoolOf(Fxp(Q96), Wad(ZERO), Tick("int", 0)),
     PoolOf(Fxp(Dec(<<7,9,2,6,7,7,8,4,5,1,9,1,3,0,0,4,2,4,2,8,7,9,0,6,6,3,
                      7,9,9>>)), Wad(ZERO), Tick("int", 10)),
     PoolOf(Fxp(Dec(<<7,9,3,0,7,4,2,6,3,3,8,9,6,0,7,7,6,8,4,2,8,8,5,5,3,9,
                      8,4,5>>)), Wad(ZERO), Tick("int", 20))}

InDomainTick(t) == t.ty = "Fxp" /\ MIN_TICK <= t.v /\ t.v <= MAX_TICK
InDomainPrice(x) ==
    /\ x.ty = "Fxp" /\ ~x.neg
    /\ NumLe(Fxp(MIN_SQRT_RATIO), x) /\ NumLe(x, Fxp(MAX_SQRT_RATIO))

Init ==
    /\ pc = "idle"
    /\ call = NoCall
    /\ out = NoOutcome
    /\ held = NothingHeld
    /\ pool = PoolOf(Fxp(Q96), Wad(ZERO), Tick("int", 0))
    /\ position = None

\* The two conversions on the sample arguments.  They depend on nothing
\* but the argument, so each result is worked out once.
SqrtRatioAtTick == [tick \in TickArgs |-> get_sqrt_ratio_at_tick(tick)]
TickAtSqrtRatio == [x \in Prices |-> get_tick_at_sqrt_ratio(x)]
EncodedSqrtRatio ==
    [amount_1 \in AmountArgs |->
        [amount_0 \in AmountArgs |-> encodeSqrtRatioX96(amount_1, amount_0)]]

CallGetSqrtRatioAtTick ==
    \E tick \in TickArgs :
        /\ pc = "idle"
        /\ pc' = "returned"
        /\ call' = [op |-> "get_sqrt_ratio_at_tick", args |-> <<tick>>]
        /\ out' = SqrtRatioAtTick[tick]
        /\ UNCHANGED <<held, pool, position>>

\* with one of the sample prices
CallGetTickAtSqrtRatio ==
    \E x \in Prices :
        /\ pc = "idle"
        /\ pc' = "returned"
        /\ call' = [op |-> "get_tick_at_sqrt_ratio", args |-> <<x>>]
        /\ out' = TickAtSqrtRatio[x]
        /\ UNCHANGED <<held, pool, position>>

\* with the sqrt ratio the caller holds from get_sqrt_ratio_at_tick
CallGetTickAtHeldRatio ==
    /\ pc = "idle"
    /\ held.op = "get_sqrt_ratio_at_tick"
    /\ pc' = "returned"
    /\ call' = [op |-> "get_tick_at_sqrt_ratio", args |-> <<held.out.val>>]
    /\ out' = get_tick_at_sqrt_ratio(held.out.val)
    /\ UNCHANGED <<held, pool, position>>

CallMulDivRoundingUp ==
    \E a \in FactorArgs, b \in FactorArgs, d \in Denominators :
        /\ pc = "idle"
        /\ pc' = "returned"
        /\ call' = [op |-> "mul_div_rounding_up",
                    args |-> <<Fxp(a), Fxp(b), Fxp(FromInt(d))>>]
        /\ out' = mul_div_rounding_up(Fxp(a), Fxp(b), Fxp(FromInt(d)))
        /\ UNCHANGED <<held, pool, position>>

CallGetAmount0Delta ==
    \E A \in DeltaRatios, B \in DeltaRatios, L \in Liquidities,
       round_up \in BOOLEAN :
        /\ pc = "idle"
        /\ pc' = "returned"
        /\ call' = [op |-> "get_amount_0_delta",
                    args |-> <<A, B, L, round_up>>]
        /\ out' = get_amount_0_delta(A, B, L, round_up)
        /\ UNCHANGED <<held, pool, position>>

CallGetAmount1Delta ==
    \E A \in DeltaRatios, B \in DeltaRatios, L \in Liquidities,
       round_up \in BOOLEAN :
        /\ pc = "idle"
        /\ pc' = "returned"
        /\ call' = [op |-> "get_amount_1_delta",
                    args |-> <<A, B, L, round_up>>]
        /\ out' = get_amount_1_delta(A, B, L, round_up)
        /\ UNCHANGED <<held, pool, position>>

CallEncodeSqrtRatioX96 ==
    \E amount_1 \in AmountArgs, amount_0 \in AmountArgs :
        /\ pc = "idle"
        /\ pc' = "returned"
        /\ call' = [op |-> "encodeSqrtRatioX96",
                    args |-> <<amount_1, amount_0>>]
        /\ out' = EncodedSqrtRatio[amount_1][amount_0]
        /\ UNCHANGED <<held, pool, position>>

\* the caller takes the outcome
Return ==
    /\ pc = "returned"
    /\ pc' = "idle"
    /\ held' = IF IsValue(out)
               THEN [op |-> call.op, args |-> call.args, out |-> out]
               ELSE held
    /\ call' = NoCall
    /\ out' = NoOutcome
    /\ UNCHANGED <<pool, position>>

Next ==
    \/ CallGetSqrtRatioAtTick
    \/ CallGetTickAtSqrtRatio
    \/ CallGetTickAtHeldRatio
    \/ CallMulDivRoundingUp
    \/ CallGetAmount0Delta
    \/ CallGetAmount1Delta
    \/ CallEncodeSqrtRatioX96
    \/ Return

Spec == Init /\ [][Next]_vars

---------------------------------------------------------------------------
(* The caller session on a position: the caller makes positions on its     *)
(* pool and queries them, while the pool's tick and price move with the    *)
(* trades of others.                                                       *)

\* position = Position(pool, tick_lower, tick_upper, liquidity)
NewPosition ==
    \E tick_lower \in PositionTickArgs, tick_upper \in PositionTickArgs,
       liquidity \in PositionLiquidities :
        /\ pc = "idle"
        /\ pc' = "returned"
        /\ call' = [op |-> "Position",
                    args |-> <<tick_lower, tick_upper, liquidity>>]
        /\ out' = Position(tick_lower, tick_upper, liquidity)
        /\ position' = IF IsValue(out') THEN out'.val ELSE position
        /\ UNCHANGED <<held, pool>>

\* the pool object is brought up to date with the chain
PoolMoves ==
    \E moved \in Pools :
        /\ pc = "idle"
        /\ pool' = moved
        /\ pool' # pool
        /\ UNCHANGED <<pc, call, out, held, position>>

\* position.amount_in_token_0()
CallAmountInToken0 ==
    /\ pc = "idle"
    /\ position # None
    /\ pc' = "returned"
    /\ call' = [op |-> "amount_in_token_0", args |-> << >>]
    /\ \E effect \in {amount_in_token_0(position, pool)} :
           out' = effect.out /\ position' = effect.self
    /\ UNCHANGED <<held, pool>>

\* position.amount_in_token_1()
CallAmountInToken1 ==
    /\ pc = "idle"
    /\ position # None
    /\ pc' = "returned"
    /\ call' = [op |-> "amount_in_token_1", args |-> << >>]
    /\ \E effect \in {amount_in_token_1(position, pool)} :
           out' = effect.out /\ position' = effect.self
    /\ UNCHANGED <<held, pool>>

\* position.mint_amounts(), and the function of the class called on the
\* object: Position.mint_amounts(position)
CallMintAmounts ==
    \E attribute \in IF position = None THEN {}
                     ELSE {position.mint_amounts, Function} :
        /\ pc = "idle"
        /\ pc' = "returned"
        /\ call' = [op |-> IF attribute = Function
                           THEN "Position.mint_amounts"
                           ELSE "mint_amounts",
                    args |-> << >>]
        /\ out' = CallAttribute(attribute, mint_amounts(position, pool))
        /\ UNCHANGED <<held, pool, position>>

\* position._ratios_after_slippage(slippage_tolerance)
CallRatiosAfterSlippage ==
    \E slippage_tolerance \in Tolerances :
        /\ pc = "idle"
        /\ position # None
        /\ pc' = "returned"
        /\ call' = [op |-> "_ratios_after_slippage",
                    args |-> <<slippage_tolerance>>]
        /\ out' = _ratios_after_slippage(position, pool, slippage_tolerance)
        /\ UNCHANGED <<held, pool, position>>

\* The caller is done with the outcome of a call on its position; what
\* it keeps is the position object.
PositionReturn ==
    /\ pc = "returned"
    /\ pc' = "idle"
    /\ call' = NoCall
    /\ out' = NoOutcome
    /\ UNCHANGED <<held, pool, position>>

PositionNext ==
    \/ NewPosition
    \/ PoolMoves
    \/ CallAmountInToken0
    \/ CallAmountInToken1
    \/ CallMintAmounts
    \/ CallRatiosAfterSlippage
    \/ CallGetAmount0Delta
    \/ CallGetAmount1Delta
    \/ PositionReturn

PositionSpec == Init /\ [][PositionNext]_vars

---------------------------------------------------------------------------
(* Properties.                                                             *)

Returned(op) == pc = "returned" /\ call.op = op

\* C1: round trip.  When get_tick_at_sqrt_ratio is called with the value
\* that get_sqrt_ratio_at_tick returned for a tick t of the domain, it
\* returns exactly t.
RoundTrip ==
    (/\ Returned("get_tick_at_sqrt_ratio")
     /\ held.op = "get_sqrt_ratio_at_tick"
     /\ InDomainTick(held.args[1])
     /\ call.args[1] = held.out.val)
    => out = Value(Tick("int", held.args[1].v))

\* C2: strict monotonicity.  Of two calls of get_sqrt_ratio_at_tick with
\* ticks of the domain, the one with the smaller tick returns the strictly
\* smaller value.
StrictlyMonotonic ==
    (/\ Returned("get_sqrt_ratio_at_tick")
     /\ held.op = "get_sqrt_ratio_at_tick"
     /\ InDomainTick(call.args[1])
     /\ InDomainTick(held.args[1]))
    => /\ IsValue(out)
       /\ held.args[1].v < call.args[1].v => NumLt(held.out.val, out.val)
       /\ call.args[1].v < held.args[1].v => NumLt(out.val, held.out.val)

\* the results at ticks -1 and 1, on the two sides of the sign change
MonotonicAcrossZero ==
    /\ Returned("get_sqrt_ratio_at_tick")
    /\ held.op = "get_sqrt_ratio_at_tick"
    /\ held.args[1] = Tick("Fxp", -1)
    /\ call.args[1] = Tick("Fxp", 1)
    /\ NumLt(held.out.val, out.val)

\* C3: get_sqrt_ratio_at_tick(0) returns exactly 2^96.
TickZeroIsQ96 ==
    (Returned("get_sqrt_ratio_at_tick") /\ call.args[1] = Tick("Fxp", 0))
    => out = Value(Fxp(Q96))

TickZeroReturned ==
    /\ Returned("get_sqrt_ratio_at_tick")
    /\ call.args[1] = Tick("Fxp", 0)
    /\ out = Value(Fxp(Dec(<<7,9,2,2,8,1,6,2,5,1,4,2,6,4,3,3,7,5,9,3,5,4,3,9,
                            5,0,3,3,6>>)))

\* |x - k| <= 1 for a number x >= 0 and a whole k >= 1
WithinOne(x, k) ==
    \/ x.n = k
    \/ x.n = BigSub(k, ONE)
    \/ x.n = BigAdd(k, ONE) /\ ~x.frac

\* C4: at the ends of the domain, get_sqrt_ratio_at_tick(MIN_TICK) is
\* MIN_SQRT_RATIO and get_sqrt_ratio_at_tick(MAX_TICK) is MAX_SQRT_RATIO,
\* each up to a difference of at most 1.
EndsMatchRatioBounds ==
    Returned("get_sqrt_ratio_at_tick")
    => /\ call.args[1] = Tick("Fxp", MIN_TICK)
            => IsValue(out) /\ WithinOne(out.val, MIN_SQRT_RATIO)
       /\ call.args[1] = Tick("Fxp", MAX_TICK)
            => IsValue(out) /\ WithinOne(out.val, MAX_SQRT_RATIO)

\* both ends have been converted: MIN_TICK before, MAX_TICK now
BothEndsReturned ==
    /\ Returned("get_sqrt_ratio_at_tick")
    /\ call.args[1] = Tick("Fxp", MAX_TICK)
    /\ IsValue(out)
    /\ held.op = "get_sqrt_ratio_at_tick"
    /\ held.args[1] = Tick("Fxp", MIN_TICK)

\* C5: a call of get_sqrt_ratio_at_tick with a tick outside
\* [MIN_TICK, MAX_TICK], and a call of get_tick_at_sqrt_ratio with a price
\* outside [MIN_SQRT_RATIO, MAX_SQRT_RATIO], ends in DomainError.
OutOfDomainRejected ==
    /\ (/\ Returned("get_sqrt_ratio_at_tick")
        /\ call.args[1].ty = "Fxp"
        /\ ~InDomainTick(call.args[1]))
       => out.kind = "DomainError"
    /\ (/\ Returned("get_tick_at_sqrt_ratio")
        /\ ~InDomainPrice(call.args[1]))
       => out.kind = "DomainError"

\* C6: for a price x in [MIN_SQRT_RATIO, MAX_SQRT_RATIO],
\* get_tick_at_sqrt_ratio returns the tick r with
\* get_sqrt_ratio_at_tick(r) <= x < get_sqrt_ratio_at_tick(r + 1).
GreatestTickBelow ==
    (Returned("get_tick_at_sqrt_ratio") /\ InDomainPrice(call.args[1]))
    => /\ IsValue(out)
       /\ LET at_r == get_sqrt_ratio_at_tick(Tick("Fxp", out.val.v))
              above == get_sqrt_ratio_at_tick(Tick("Fxp", out.val.v + 1))
          IN  /\ IsValue(at_r) /\ IsValue(above)
              /\ NumLe(at_r.val, call.args[1])
              /\ NumLt(call.args[1], above.val)

\* C7: for a tick of the domain, the value get_sqrt_ratio_at_tick returns
\* lies in [MIN_SQRT_RATIO, MAX_SQRT_RATIO].
ResultInRatioBounds ==
    (Returned("get_sqrt_ratio_at_tick") /\ InDomainTick(call.args[1]))
    => /\ IsValue(out)
       /\ NumLe(Fxp(MIN_SQRT_RATIO), out.val)
       /\ NumLe(out.val, Fxp(MAX_SQRT_RATIO))

\* ceil(a * b / d) for d > 0
Ceiling(a, b, d) ==
    LET product == BigMul(a, b)
    IN  IF Len(BigMod(product, d)) = 0 THEN BigDiv(product, d)
        ELSE BigAdd(BigDiv(product, d), ONE)

\* C8: for a, b >= 0 and denominator > 0, mul_div_rounding_up returns
\* ceil(a * b / denominator): the floor when the division is exact, the
\* floor plus one otherwise.
RoundsUpToCeiling ==
    (Returned("mul_div_rounding_up") /\ NumNonZero(call.args[3]))
    => out = Value(Fxp(Ceiling(call.args[1].n, call.args[2].n,
                               call.args[3].n)))

\* C9: mul_div_rounding_up with a zero denominator, and get_amount_0_delta
\* with a zero sqrt ratio to divide by, end in the division-by-zero error.
ZeroDenominatorFails ==
    /\ (Returned("mul_div_rounding_up") /\ ~NumNonZero(call.args[3]))
       => out.kind = "ZeroDivisionError"
    /\ (/\ Returned("get_amount_0_delta")
        /\ ~NumNonZero(call.args[1]) \/ ~NumNonZero(call.args[2]))
       => out.kind = "ZeroDivisionError"

\* up - down is 0 or 1
GapZeroOrOne(up, down) ==
    \/ up = down
    \/ ~up.frac /\ ~down.frac /\ up.neg = down.neg
       /\ up.n = BigAdd(down.n, ONE)

\* C10: for sqrt ratios A < B of the price domain and liquidity > 0, each
\* of get_amount_0_delta and get_amount_1_delta returns a value in both
\* rounding directions, and the value rounded up exceeds the value rounded
\* down by 0 or 1.
RoundingGapAtMostOne ==
    (/\ Returned("get_amount_0_delta") \/ Returned("get_amount_1_delta")
     /\ InDomainPrice(call.args[1]) /\ InDomainPrice(call.args[2])
     /\ NumLt(call.args[1], call.args[2])
     /\ NumNonZero(call.args[3]))
    => /\ IsValue(out)
       /\ (/\ held.op = call.op
           /\ SubSeq(held.args, 1, 3) = SubSeq(call.args, 1, 3)
           /\ call.args[4] /\ ~held.args[4])
          => GapZeroOrOne(out.val, held.out.val)

\* a whole number >= 0 equal to the natural n, whatever its Python type
IsWhole(x, n) == x.n = n /\ ~x.frac /\ ~x.neg

\* C11: argument order does not matter.  Each call of get_amount_0_delta
\* and get_amount_1_delta completes with a value, and it is the value the
\* call with the two ratios exchanged returned.
ArgumentOrderIrrelevant ==
    (Returned("get_amount_0_delta") \/ Returned("get_amount_1_delta"))
    => /\ IsValue(out)
       /\ (/\ held.op = call.op
           /\ held.args = <<call.args[2], call.args[1], call.args[3],
                            call.args[4]>>)
          => out = held.out

\* floor(floor(L * 2^96 * (B - A) / B) / A) for 0 < A <= B
Amount0Floor(A, B, L) ==
    BigDiv(BigDiv(BigMul(BigShl(L, 96), BigSub(B, A)), B), A)

\* ceil(ceil(L * 2^96 * (B - A) / B) / A) for 0 < A <= B
Amount0Ceiling(A, B, L) ==
    Ceiling(Ceiling(BigShl(L, 96), BigSub(B, A), B), ONE, A)

\* C12: for ratios 0 < A <= B, get_amount_0_delta(A, B, L, True) returns
\* ceil(ceil(L * 2^96 * (B - A) / B) / A) and
\* get_amount_0_delta(A, B, L, False) returns
\* floor(floor(L * 2^96 * (B - A) / B) / A), whole numbers both.
Amount0MatchesFormula ==
    (/\ Returned("get_amount_0_delta")
     /\ NumNonZero(call.args[1])
     /\ NumLe(call.args[1], call.args[2]))
    => /\ IsValue(out)
       /\ IsWhole(out.val,
                  IF call.args[4]
                  THEN Amount0Ceiling(call.args[1].n, call.args[2].n,
                                      call.args[3].n)
                  ELSE Amount0Floor(call.args[1].n, call.args[2].n,
                                    call.args[3].n))

\* C13: for ratios A <= B, get_amount_1_delta(A, B, L, True) returns
\* ceil(L * (B - A) / 2^96) and get_amount_1_delta(A, B, L, False) returns
\* floor(L * (B - A) / 2^96).
Amount1MatchesFormula ==
    (Returned("get_amount_1_delta") /\ NumLe(call.args[1], call.args[2]))
    => /\ IsValue(out)
       /\ IsWhole(out.val,
                  IF call.args[4]
                  THEN Ceiling(call.args[3].n,
                               BigSub(call.args[2].n, call.args[1].n), Q96)
                  ELSE BigDiv(BigMul(call.args[3].n,
                                     BigSub(call.args[2].n, call.args[1].n)),
                              Q96))

---------------------------------------------------------------------------
(* The position amount calculator, under PositionSpec.                     *)

\* a position over a range of the tick domain:
\* MIN_TICK <= tick_lower < tick_upper <= MAX_TICK
ValidRange(self) ==
    /\ self # None
    /\ MIN_TICK <= self.tick_lower.v
    /\ self.tick_lower.v < self.tick_upper.v
    /\ self.tick_upper.v <= MAX_TICK

\* a call on a position over a range has returned, with the pool's tick in
\* the given branch
QueryReturned(op, branch) ==
    /\ Returned(op)
    /\ ValidRange(position)
    /\ RangeBranch(position, pool) = branch

\* mint_amounts has returned, called either way
MintReturned(branch) ==
    \/ QueryReturned("mint_amounts", branch)
    \/ QueryReturned("Position.mint_amounts", branch)

\* the sqrt ratio of a position's tick as a whole Q96 number, rounded up
WholeRatio(tick) ==
    LET ratio == get_sqrt_ratio_at_tick(Tick("Fxp", tick.v)).val
    IN  IF ratio.frac THEN BigAdd(ratio.n, ONE) ELSE ratio.n

\* the token0 delta between two whole ratios A < B
Delta0(A, B, L, round_up) ==
    IF round_up THEN Amount0Ceiling(A, B, L) ELSE Amount0Floor(A, B, L)

\* the token1 delta between two whole ratios A < B
Delta1(A, B, L, round_up) ==
    IF round_up THEN Ceiling(L, BigSub(B, A), Q96)
    ELSE BigDiv(BigMul(L, BigSub(B, A)), Q96)

\* an outcome that is the amount n
IsAmount(outcome, n) ==
    IsValue(outcome) /\ outcome.val # None /\ IsWhole(outcome.val, n)

\* an outcome that is the pair of amounts n0, n1
IsAmounts(outcome, n0, n1) ==
    /\ IsValue(outcome)
    /\ IsWhole(outcome.val.amount0, n0)
    /\ IsWhole(outcome.val.amount1, n1)

\* C14: below range (pool.tick_current < tick_lower) amount0 is the token0
\* delta between the ratios of tick_lower and tick_upper for the
\* position's liquidity and amount1 is 0: amount_in_token_0 and
\* amount_in_token_1 return them rounded down, mint_amounts rounded up.
BelowRangeAmounts ==
    /\ QueryReturned("amount_in_token_0", "below")
       => IsAmount(out, Delta0(WholeRatio(position.tick_lower),
                               WholeRatio(position.tick_upper),
                               position.liquidity.n, FALSE))
    /\ QueryReturned("amount_in_token_1", "below") => IsAmount(out, ZERO)
    /\ MintReturned("below")
       => IsAmounts(out, Delta0(WholeRatio(position.tick_lower),
                                WholeRatio(position.tick_upper),
                                position.liquidity.n, TRUE), ZERO)

\* C15: within range (tick_lower <= pool.tick_current < tick_upper) the
\* amounts are taken from the pool's current sqrt price: amount0 is the
\* token0 delta between pool.square_root_ratio_x96 and the ratio of
\* tick_upper, amount1 the token1 delta between the ratio of tick_lower
\* and pool.square_root_ratio_x96; amount_in_token_0 returns amount0
\* rounded down, mint_amounts both rounded up.
WithinRangeAmounts ==
    /\ QueryReturned("amount_in_token_0", "within")
       => IsAmount(out, Delta0(pool.square_root_ratio_x96.n,
                               WholeRatio(position.tick_upper),
                               position.liquidity.n, FALSE))
    /\ MintReturned("within")
       => IsAmounts(out,
                    Delta0(pool.square_root_ratio_x96.n,
                           WholeRatio(position.tick_upper),
                           position.liquidity.n, TRUE),
                    Delta1(WholeRatio(position.tick_lower),
                           pool.square_root_ratio_x96.n,
                           position.liquidity.n, TRUE))

\* C16: above range (pool.tick_current >= tick_upper) amount0 is 0 and
\* amount1 is the token1 delta between the ratios of tick_lower and
\* tick_upper: amount_in_token_0 and amount_in_token_1 return them rounded
\* down, mint_amounts rounded up.
AboveRangeAmounts ==
    /\ QueryReturned("amount_in_token_0", "above") => IsAmount(out, ZERO)
    /\ QueryReturned("amount_in_token_1", "above")
       => IsAmount(out, Delta1(WholeRatio(position.tick_lower),
                               WholeRatio(position.tick_upper),
                               position.liquidity.n, FALSE))
    /\ MintReturned("above")
       => IsAmounts(out, ZERO,
                    Delta1(WholeRatio(position.tick_lower),
                           WholeRatio(position.tick_upper),
                           position.liquidity.n, TRUE))

\* the same position with nothing stored in token_0_amount
Unqueried(self) == [self EXCEPT !.token_0_amount = None]

\* C17: owed amounts are never stale.  Whatever queries were made before
\* and however the pool has moved since, amount_in_token_0 ends as it does
\* on a position that was never queried, with the pool as it is now: the
\* same outcome, and the same amount in token_0_amount.
NeverStale ==
    (Returned("amount_in_token_0") /\ ValidRange(position))
    => /\ out = amount_in_token_0(Unqueried(position), pool).out
       /\ position.token_0_amount
          = amount_in_token_0(Unqueried(position), pool).self.token_0_amount

\* C18: rounding discipline.  mint_amounts returns amounts, and its amount0
\* is at least the amount0 that amount_in_token_0 works out for the same
\* position and pool: minting rounds up, burning rounds down.
MintAtLeastBurn ==
    (\E branch \in {"below", "within", "above"} : MintReturned(branch))
    => /\ IsValue(out)
       /\ IsValue(amount_in_token_0(Unqueried(position), pool).out)
       /\ NumLe(amount_in_token_0(Unqueried(position), pool)
                    .self.token_0_amount,
                out.val.amount0)

\* C19: every amount is non-negative.  get_amount_0_delta and
\* get_amount_1_delta on ratios of the domain, in either order, with
\* liquidity >= 0 and either rounding, and amount_in_token_0 on a position
\* over a range, return an amount that is not below zero.
AmountsNonNegative ==
    /\ ((Returned("get_amount_0_delta") \/ Returned("get_amount_1_delta"))
        /\ InDomainPrice(call.args[1]) /\ InDomainPrice(call.args[2]))
       => (IsValue(out) /\ out.val # None /\ ~out.val.neg)
    /\ (Returned("amount_in_token_0") /\ ValidRange(position))
       => (IsValue(out) /\ out.val # None /\ ~out.val.neg)

\* a tolerance strictly between 0 and 1
InUnitInterval(s) == s.ty = "float" /\ 0 < s.num /\ s.num < s.den

\* C20: for a tolerance s with 0 < s < 1, _ratios_after_slippage returns a
\* pair (lower, upper) of sqrt ratios with
\* MIN_SQRT_RATIO <= lower <= upper <= MAX_SQRT_RATIO; any other tolerance
\* is rejected.
SlippageBounds ==
    Returned("_ratios_after_slippage")
    => IF InUnitInterval(call.args[1])
       THEN /\ IsValue(out)
            /\ NumLe(Fxp(MIN_SQRT_RATIO), out.val[1])
            /\ NumLe(out.val[1], out.val[2])
            /\ NumLe(out.val[2], Fxp(MAX_SQRT_RATIO))
       ELSE ~IsValue(out)

\* the position of the test suite, Position(pool, -10, 10, 1), on the pool
\* at tick 0 with the sqrt price 2^96
TestPosition ==
    /\ position # None
    /\ position.tick_lower.v = 0 - 10
    /\ position.tick_upper.v = 10
    /\ position.liquidity.n = ONE
    /\ pool.tick_current.v = 0
    /\ pool.square_root_ratio_x96.n = Q96

\* C21: for the position of the test suite (ticks -10 and 10, liquidity 1,
\* pool at tick 0 with sqrt price 2^96) mint_amounts returns amount0 and
\* amount1 that are both above zero and equal.
TestPositionMintsEqualAmounts ==
    (TestPosition /\ MintReturned("within"))
    => /\ IsValue(out)
       /\ NumNonZero(out.val.amount0) /\ ~out.val.amount0.neg
       /\ NumNonZero(out.val.amount1) /\ ~out.val.amount1.neg
       /\ NumLe(out.val.amount0, out.val.amount1)
       /\ NumLe(out.val.amount1, out.val.amount0)

\* C22: every Position that exists has
\* MIN_TICK <= tick_lower < tick_upper <= MAX_TICK, and Position(..) with
\* any other ticks is rejected.
PositionRangeChecked ==
    /\ position # None => ValidRange(position)
    /\ Returned("Position")
       => (IsValue(out)
           <=> /\ call.args[1].ty = "int" /\ call.args[2].ty = "int"
               /\ MIN_TICK <= call.args[1].v
               /\ call.args[1].v < call.args[2].v
               /\ call.args[2].v <= MAX_TICK)

---------------------------------------------------------------------------
(* The math functions again, under Spec.                                   *)

\* does the natural number n fit a 256-bit word
FitsWord(n) == BitLen(n) <= 256

\* |B - A|
Gap(A, B) == IF BigLe(A, B) THEN BigSub(B, A) ELSE BigSub(A, B)

\* The widest intermediate product of a call of mul_div_rounding_up,
\* get_amount_0_delta or get_amount_1_delta.
WidestProduct ==
    IF call.op = "mul_div_rounding_up"
    THEN BigMul(call.args[1].n, call.args[2].n)
    ELSE IF call.op = "get_amount_0_delta"
    THEN BigMul(BigShl(call.args[3].n, 96),
                Gap(call.args[1].n, call.args[2].n))
    ELSE BigMul(call.args[3].n, Gap(call.args[1].n, call.args[2].n))

\* C23: no silent wrap-around.  A call of mul_div_rounding_up with a
\* denominator > 0, or of get_amount_0_delta or get_amount_1_delta with
\* ratios of the price domain, whose intermediate product does not fit 256
\* bits ends in the ArithmeticOverflow error, and a value that any of them
\* returns fits 256 bits.
OverflowIsAnError ==
    (\/ Returned("mul_div_rounding_up") /\ NumNonZero(call.args[3])
     \/ /\ Returned("get_amount_0_delta") \/ Returned("get_amount_1_delta")
        /\ InDomainPrice(call.args[1]) /\ InDomainPrice(call.args[2]))
    => /\ ~FitsWord(WidestProduct) => out.kind = "ArithmeticOverflow"
       /\ IsValue(out) => FitsWord(out.val.n)

\* The accumulator of get_sqrt_ratio_at_tick before the final conversion,
\* as a 256-bit word: the ladder's result, inverted by integer division
\* for tick > 0.
WordAccumulator(tick) ==
    IF tick > 0
    THEN BigDiv(MAX_UINT256, Ladder(AbsTick(tick), 1,
                                    LadderStart(AbsTick(tick))))
    ELSE Ladder(AbsTick(tick), 1, LadderStart(AbsTick(tick)))

\* R >> 32, plus one when the 32 bits shifted out are not all zero
ShiftedRoundingUp(R) ==
    IF Len(BigMod(R, BigPow2(32))) = 0 THEN BigShr(R, 32)
    ELSE BigAdd(BigShr(R, 32), ONE)

\* C24: the final conversion of get_sqrt_ratio_at_tick rounds up.  For a
\* tick of the domain the result is the whole number floor(R / 2^32) + 1
\* when R mod 2^32 is nonzero and floor(R / 2^32) when it is zero, R being
\* the 128-fractional-bit accumulator.
ConversionRoundsUp ==
    (Returned("get_sqrt_ratio_at_tick") /\ InDomainTick(call.args[1]))
    => /\ IsValue(out)
       /\ IsWhole(out.val,
                  ShiftedRoundingUp(WordAccumulator(call.args[1].v)))

\* the accumulator of the ladder for |tick| = abs_tick once the bits
\* 0..i have been handled, as the description states it
RECURSIVE AccumulatorAfterBit(_, _)
AccumulatorAfterBit(abs_tick, i) ==
    IF i = 0
    THEN IF abs_tick % 2 = 1 THEN RatioBit0Set ELSE BigPow2(128)
    ELSE IF (abs_tick \div Pow2Small(i)) % 2 = 1
         THEN BigDiv(BigMul(AccumulatorAfterBit(abs_tick, i - 1),
                            LadderMultipliers[i]),
                     BigPow2(128))
         ELSE AccumulatorAfterBit(abs_tick, i - 1)

\* that accumulator after the last bit, for the sampled ticks <= 0 of the
\* domain
StatedAccumulator ==
    [t \in {u \in Ticks : MIN_TICK <= u /\ u <= 0} |->
        AccumulatorAfterBit(0 - t, Len(LadderMultipliers))]

\* the returned number x is acc / 2^32
IsAccumulatorOverQ32(x, acc) ==
    /\ x.n = BigShr(acc, 32)
    /\ x.frac = (Len(BigMod(acc, BigPow2(32))) # 0)
    /\ ~x.neg

NonPositiveTick(t) == InDomainTick(t) /\ t.v <= 0

\* C25: the ladder.  For a tick <= 0 of the domain the result of
\* get_sqrt_ratio_at_tick is the stated accumulator (the start chosen by
\* bit 0 of |tick|, then floor(accumulator * C_i / 2^128) for each set bit
\* i of 1..19 in increasing order) divided by 2^32; that accumulator is at
\* most 2^128; and of two such ticks the one with the larger |tick| has
\* the strictly smaller accumulator.
LadderAsStated ==
    (Returned("get_sqrt_ratio_at_tick") /\ NonPositiveTick(call.args[1]))
    => /\ IsValue(out)
       /\ IsAccumulatorOverQ32(out.val, StatedAccumulator[call.args[1].v])
       /\ BigLe(StatedAccumulator[call.args[1].v], BigPow2(128))
       /\ (/\ held.op = "get_sqrt_ratio_at_tick"
           /\ NonPositiveTick(held.args[1])
           /\ held.args[1].v < call.args[1].v)
          => BigLt(StatedAccumulator[held.args[1].v],
                   StatedAccumulator[call.args[1].v])

\* the ladder has run with every multiplier but the first at tick -2^19,
\* after it ran with all the set bits of MIN_TICK
LadderRanAtBit19 ==
    /\ Returned("get_sqrt_ratio_at_tick")
    /\ call.args[1] = Tick("Fxp", 0 - Pow2Small(Len(LadderMultipliers)))
    /\ IsValue(out)
    /\ out.val.n = BigShr(LadderMultipliers[Len(LadderMultipliers)], 32)
    /\ held.op = "get_sqrt_ratio_at_tick"
    /\ held.args[1] = Tick("Fxp", MIN_TICK)

\* floor((2^256 - 1) / accumulator) for the sampled ticks > 0 of the
\* domain, the accumulator being the one of |tick|
StatedReciprocal ==
    [t \in {u \in Ticks : 0 < u /\ u <= MAX_TICK} |->
        BigDiv(MAX_UINT256, StatedAccumulator[0 - t])]

\* the whole part of the returned number x is that of acc / 2^32
WholePartOverQ32(x, acc) == x.n = BigShr(acc, 32) /\ ~x.neg

\* the result at t lies strictly above 2^96 for t > 0 and strictly below
\* it for t < 0
SideOfQ96(t, x) ==
    /\ t > 0 => NumLt(Fxp(Q96), x)
    /\ t < 0 => NumLt(x, Fxp(Q96))

StatedNormalised(square_root_ratio_x128, msb) ==
    IF msb >= 128 THEN BigShr(square_root_ratio_x128, msb - 127)
    ELSE BigShl(square_root_ratio_x128, 127 - msb)

\* <<tick_low, tick_high>> of lines 175-176
CandidateTicks(log_sqrt10001) ==
    << SToInt(SShr(SSub(log_sqrt10001, TickLowOffset), 128)),
       SToInt(SShr(SAdd(log_sqrt10001, TickHighOffset), 128)) >>

\* the candidates after the 14 iterations of lines 160-171
CandidatesAfterIterations(square_root_ratio_x128, msb) ==
    CandidateTicks(
        SMul(FromWords(msb - 128,
                 Norm(LogIter(0, StatedNormalised(square_root_ratio_x128,
                                                  msb), << >>))),
             LogSqrt10001Factor))

CandidatesOf(sqrtRatioX96) ==
    CandidatesAfterIterations(
        BigShl(sqrtRatioX96.n, 32),
        most_significant_bit(BigShl(sqrtRatioX96.n, 32)))

\* the tick the tie-break picks of the candidates c, at_high being the
\* outcome of get_sqrt_ratio_at_tick(tick_high)
TieBreak(c, at_high, sqrtRatioX96) ==
    IF c[1] = c[2] THEN c[1]
    ELSE IF IsValue(at_high) /\ NumLe(at_high.val, sqrtRatioX96) THEN c[2]
    ELSE c[1]

TieBreakHolds(c, sqrtRatioX96, outcome) ==
    /\ c[1] <= c[2]
    /\ c[2] - c[1] <= 1
    /\ outcome = Value(Tick("int",
                     TieBreak(c, get_sqrt_ratio_at_tick(Tick("Fxp", c[2])),
                              sqrtRatioX96)))
    /\ MIN_TICK <= outcome.val.v
    /\ outcome.val.v <= MAX_TICK

\* C27: the tie-break.  For a price of [MIN_SQRT_RATIO, MAX_SQRT_RATIO]
\* the candidates after the 14 iterations satisfy tick_low <= tick_high
\* and tick_high - tick_low <= 1, and get_tick_at_sqrt_ratio returns the
\* common value when they are equal, tick_high when
\* get_sqrt_ratio_at_tick(tick_high) <= sqrtPriceX96 and tick_low
\* otherwise: an integer tick of [MIN_TICK, MAX_TICK].
TieBreakAsStated ==
    (/\ Returned("get_tick_at_sqrt_ratio")
     /\ InDomainPrice(call.args[1])
     /\ Len(call.args[1].n) # 0)
    => TieBreakHolds(CandidatesOf(call.args[1]), call.args[1], out)

\* two ints, the second positive
EncodableAmounts(amount_1, amount_0) ==
    /\ isinstance(amount_1, "int") /\ ~amount_1.neg
    /\ isinstance(amount_0, "int") /\ ~amount_0.neg
    /\ Len(amount_0.n) # 0

\* floor(sqrt(amount_1 * 2^192 / amount_0)) for the sampled amounts
\* (no entry is used for amount_0 = 0)
StatedEncoding ==
    [amount_1 \in AmountArgs |->
        [amount_0 \in AmountArgs |->
            IF Len(amount_0.n) = 0 THEN << >>
            ELSE BigSqrt(BigDiv(BigShl(amount_1.n, 192), amount_0.n))]]

\* C28: encodeSqrtRatioX96(amount_1, amount_0) returns the Fxp
\* floor(sqrt(amount_1 * 2^192 / amount_0)) for ints amount_1 >= 0 and
\* amount_0 > 0, and so 2^96, the sqrt ratio of tick 0, when the two
\* amounts are equal.
EncodesSqrtOfRatio ==
    (/\ Returned("encodeSqrtRatioX96")
     /\ EncodableAmounts(call.args[1], call.args[2]))
    => /\ out = Value(Fxp(StatedEncoding[call.args[1]][call.args[2]]))
       /\ (call.args[1] = call.args[2]) => out = Value(Fxp(Q96))

=============================================================================
